---- MODULE Spec2Model ----
(***************************************************************************)
(* Model of the FaaSr-synthetic translator:                                *)
(*   translator.py  translate_wf_to_faasr, sanitize_action_name            *)
(*   workflow.py    Task, SyntheticFaaSrAction, SyntheticFaaSrWorkflow     *)
(*   writer.py      write_faasr_obj_to_json                                *)
(* Strings that the code transforms (task ids, action names) are sequences *)
(* of one-character strings; Python dicts are functions from keys to       *)
(* values (insertion order is not modelled); None is the empty sequence    *)
(* and a present value is a one-element sequence.                          *)
(***************************************************************************)
EXTENDS Integers, Sequences, FiniteSets, TLC

VARIABLES
    workflow,          \* the WfFormatWorkflow passed to translate_wf_to_faasr
    servers_arg,       \* the compute_servers argument (a list or one server)
    python_percentage, \* option
    server_containers, \* option: <<>> (None) or <<table>>
    output_name,       \* second argument of write_faasr_obj_to_json
    pc,                \* position of the caller: build, loaded, sizes, ready,
                       \* translate, translated, aborted, failed, written,
                       \* write_failed
    compute_servers,   \* local of translate_wf_to_faasr (normalised list)
    function_list,     \* local
    entry_functions,   \* local
    server_index,      \* local: the round-robin counter
    ti,                \* local: number of tasks already converted
    rejections,        \* history: candidates skipped by the runtime check
    scans,             \* history: per task, candidates scanned for it
    result,            \* <<>> or <<the SyntheticFaaSrWorkflow returned>>
    error,             \* "none" or the exception that ended the run
    fs,                \* file system: directory name -> (file name -> content)
    fs0,               \* the file system before the first call
    draws,             \* pseudo-random draws consumed by the current run
    tape,              \* the draws of the first run, replayed by the second
    run,               \* 1 or 2: which translate-then-serialize run this is
    first,             \* <<>> or <<outcome of the first run>>
    attempt,           \* <<>> or <<the last constructor call and its outcome>>
    original,          \* <<>> or <<the workflow and num_tasks given to
                       \* create_test_workflow>>
    sizes              \* <<>> or <<the answers to the file size prompts>>

vars == <<workflow, servers_arg, python_percentage, server_containers,
          output_name, pc, compute_servers, function_list, entry_functions,
          server_index, ti, rejections, scans, result, error, fs, fs0,
          draws, tape, run, first, attempt, original, sizes>>

inputs == <<workflow, servers_arg, python_percentage, server_containers,
            output_name, fs0>>

\* what the steps before the call of translate_wf_to_faasr leave behind
prepared == <<attempt, original, sizes>>

(***************************************************************************)
(* Bounds of the model.                                                    *)
(***************************************************************************)
MaxTasks == 3
MaxServers == 3
MaxFiles == 2

(***************************************************************************)
(* Strings.                                                                *)
(***************************************************************************)
Lower(c) ==
    CASE c = "A" -> "a"
      [] c = "B" -> "b"
      [] c = "C" -> "c"
      [] c = "D" -> "d"
      [] c = "T" -> "t"
      [] OTHER -> c

StrLower(s) == [k \in 1..Len(s) |-> Lower(s[k])]

StrReplace(s, old, new) == [k \in 1..Len(s) |-> IF s[k] = old THEN new ELSE s[k]]

\* name.lower() only: the underscores are kept
SanitizeKeepUnderscore(name) == StrLower(name)

\* translator.py:16  name.lower().replace("_", "-")
sanitize_action_name(name) == StrReplace(StrLower(name), "_", "-")

DigitChar(d) ==
    CASE d = 0 -> "0" [] d = 1 -> "1" [] d = 2 -> "2" [] d = 3 -> "3"
      [] d = 4 -> "4" [] d = 5 -> "5" [] d = 6 -> "6" [] d = 7 -> "7"
      [] d = 8 -> "8" [] d = 9 -> "9"

RECURSIVE IntToStr(_)
\* str() of a non-negative integer, as the f-string of translator.py:145 formats it
IntToStr(n) ==
    IF n < 10 THEN <<DigitChar(n)>>
    ELSE IntToStr(n \div 10) \o <<DigitChar(n % 10)>>

\* translator.py:145  f"start{rand_num}"
StartName(rand_num) == <<"s", "t", "a", "r", "t">> \o IntToStr(rand_num)

(***************************************************************************)
(* Helpers on sets and sequences.                                          *)
(***************************************************************************)
None == <<>>
Some(x) == <<x>>

SetMin(S) == CHOOSE x \in S : \A y \in S : x <= y

RECURSIVE SortedSeq(_)
SortedSeq(S) ==
    IF S = {} THEN <<>>
    ELSE LET m == SetMin(S) IN <<m>> \o SortedSeq(S \ {m})

SeqsUpTo(S, n) == UNION {[1..k -> S] : k \in 0..n}

Range(s) == {s[k] : k \in 1..Len(s)}

RECURSIVE SumSeq(_)
SumSeq(s) == IF s = <<>> THEN 0 ELSE s[1] + SumSeq(Tail(s))

(***************************************************************************)
(* workflow.py: compute servers, tasks, actions, workflows.                *)
(***************************************************************************)
\* convert.py:89-96
GH == [name |-> "GH", faastype |-> "GitHubActions",
       username |-> "Ashish-Ramrakhiani",
       action_repo_name |-> "FaaSr-workflow-public", branch |-> "main"]
\* convert.py:100-108
AWS == [name |-> "AWS", faastype |-> "Lambda", region |-> "us-east-1"]
\* convert.py:112-118
OW == [name |-> "OW", faastype |-> "OpenWhisk", namespace |-> "guest",
       endpoint |-> "ow.faasr.io:31002"]
\* a Lambda_ComputeServer constructed under another name (workflow.py:52-53)
LAM == [name |-> "LAM", faastype |-> "Lambda", region |-> "us-west-2"]

ServerPool == {GH, AWS, OW, LAM}

\* convert.py:121-134
GCP == [name |-> "GCP", faastype |-> "GoogleCloud", region |-> "us-central1",
        time_limit |-> 3600]
\* convert.py:137-152
SLURM == [name |-> "SLURM", faastype |-> "SLURM", partition |-> "faasr",
          time_limit |-> 30]
\* convert.py:79-154
create_default_compute_servers == <<GH, AWS, OW, GCP, SLURM>>

\* workflow.py:213-221  Task.__init__ after the runtime check
Task(runtime, name, id, children, parents, input_files, output_files) ==
    [runtime |-> runtime, name |-> name, id |-> id, children |-> children,
     parents |-> parents, input_files |-> input_files,
     output_files |-> output_files]

\* the constructor without its check
TaskInitUnchecked(runtime, name, id, children, parents, input_files, output_files) ==
    Some(Task(runtime, name, id, children, parents, input_files, output_files))

\* workflow.py:203-221  Task.__init__: None stands for the ValueError of a
\* negative runtime
TaskInit(runtime, name, id, children, parents, input_files, output_files) ==
    IF runtime < 0 THEN None
    ELSE Some(Task(runtime, name, id, children, parents, input_files,
                   output_files))

\* workflow.py:233-235
WfFormatWorkflow(files, tasks) == [files |-> files, tasks |-> tasks]

\* workflow.py:176-186  SyntheticFaaSrAction.__init__: None stands for the
\* ValueError of a negative execution time
SyntheticFaaSrAction(compute_server, execution_time, name, action_container, input_files, output_files, invoke_next, type) ==
    IF execution_time < 0 THEN None
    ELSE Some([compute_server |-> compute_server,
               execution_time |-> execution_time,
               name |-> name,
               input_files |-> input_files,
               output_files |-> output_files,
               invoke_next |-> invoke_next,
               function_name |-> "synthetic_faas_function",
               action_container |-> action_container,
               type |-> type])

\* workflow.py:281-295  SyntheticFaaSrWorkflow.__init__: the attributes it sets
SyntheticFaaSrWorkflow(servers, files, functions, start_function) ==
    [compute_servers |-> servers,
     data_store |-> "My_S3_Bucket",
     data_endpoint |-> "https://s3.us-west-2.amazonaws.com",
     bucket |-> "faasr-bucket-0001",
     region |-> "us-west-2",
     writable |-> "true",
     files_folder |-> "synthetic_files",
     files |-> files,
     function_list |-> functions,
     start_function |-> start_function,
     function_git_repos |-> [synthetic_faas_function |-> "nolcut/FaaSr-synthetic"]]

(***************************************************************************)
(* translator.py: translate_wf_to_faasr.                                   *)
(***************************************************************************)
LAMBDA_MAX_RUNTIME == 600

DefaultContainer == "ghcr.io/faasr/github-actions-tidyverse:latest"

\* a list argument, or one server that is not a list
ListArg(servers) == [is_list |-> TRUE, value |-> servers]
SingleArg(server) == [is_list |-> FALSE, value |-> server]

\* translator.py:58-59
NormalizeServers(arg) == IF arg.is_list THEN arg.value ELSE <<arg.value>>

\* a counter that survives from one call to the next
StaleCursor(previous) == previous

\* translator.py:62  server_index = 0 at the start of every call
StartCursor(previous) == 0

\* translator.py:71, 135
ActionType(u, percentage) == IF u < percentage THEN "Python" ELSE "R"

\* translator.py:82
Rejects(candidate, t) ==
    candidate.name = "AWS" /\ t.runtime > LAMBDA_MAX_RUNTIME

\* the counter left where it was
SameCursor(idx) == idx

\* translator.py:78
AdvanceCursor(idx) == idx + 1

RECURSIVE ScanServers(_, _, _, _)
\* translator.py:74-87  the while loop, from a counter and a number of attempts
ScanServers(cs, idx, attempts, t) ==
    IF attempts < Len(cs)
    THEN LET candidate == cs[(idx % Len(cs)) + 1]
         IN  IF Rejects(candidate, t)
             THEN ScanServers(cs, AdvanceCursor(idx), attempts + 1, t)
             ELSE [assigned |-> Some(candidate),
                   server_index |-> AdvanceCursor(idx),
                   attempts |-> attempts + 1]
    ELSE [assigned |-> None, server_index |-> idx, attempts |-> attempts]

\* translator.py:90-97
FallbackServer(cs) ==
    LET ok == {k \in 1..Len(cs) : cs[k].name # "AWS"}
    IN  IF ok # {} THEN cs[SetMin(ok)] ELSE cs[1]

\* translator.py:74-97
AssignServer(cs, idx, t) ==
    LET s == ScanServers(cs, idx, 0, t)
    IN  [server |-> IF s.assigned = None THEN FallbackServer(cs)
                    ELSE s.assigned[1],
         server_index |-> s.server_index,
         attempts |-> s.attempts,
         skipped |-> IF s.assigned = None THEN s.attempts ELSE s.attempts - 1]

\* translator.py:100-104, 137-140: None stands for the KeyError of a table
\* that has the server but not the language
SelectContainer(containers, server_name, type) ==
    IF containers # None /\ DOMAIN containers[1] # {}
       /\ server_name \in DOMAIN containers[1]
    THEN IF type \in DOMAIN containers[1][server_name]
         THEN Some(containers[1][server_name][type])
         ELSE None
    ELSE Some(DefaultContainer)

\* the file lists taken from the wrong side
TaskActionSwapped(t, server, container, type) ==
    SyntheticFaaSrAction(server, t.runtime, sanitize_action_name(t.id),
                         container, t.output_files, t.input_files,
                         [k \in 1..Len(t.children) |->
                             sanitize_action_name(t.children[k])],
                         type)

\* the ids of the children copied as they are
TaskActionRawChildren(t, server, container, type) ==
    SyntheticFaaSrAction(server, t.runtime, sanitize_action_name(t.id),
                         container, t.input_files, t.output_files,
                         t.children, type)

\* translator.py:107-119
TaskAction(t, server, container, type) ==
    SyntheticFaaSrAction(server, t.runtime, sanitize_action_name(t.id),
                         container, t.input_files, t.output_files,
                         [k \in 1..Len(t.children) |->
                             sanitize_action_name(t.children[k])],
                         type)

\* the zero-candidate case falling into the synthetic-root branch
EntryCaseNoAbort(n) == IF n = 1 THEN "one" ELSE "many"

\* translator.py:127, 130, 151
EntryCase(n) == IF n = 0 THEN "none" ELSE IF n > 1 THEN "many" ELSE "one"

\* the candidates in reverse order
EntryNamesReversed(entries) ==
    [k \in 1..Len(entries) |-> entries[Len(entries) + 1 - k].name]

\* the first candidate only
EntryNamesFirstOnly(entries) == <<entries[1].name>>

\* translator.py:133
EntryNames(entries) == [k \in 1..Len(entries) |-> entries[k].name]

\* translator.py:142-149
EntryAction(server, rand_num, container, names, type) ==
    SyntheticFaaSrAction(server, 0, StartName(rand_num), container,
                         <<>>, <<>>, names, type)

(***************************************************************************)
(* writer.py: write_faasr_obj_to_json.                                     *)
(***************************************************************************)
EmptyDict == [x \in {} |-> 0]

\* writer.py:34  workflow.compute_server: None stands for the AttributeError
\* of an object that has no such attribute
WriterServer(wf) ==
    IF "compute_server" \in DOMAIN wf THEN Some(wf.compute_server) ELSE None

\* writer.py:35-53
ServerDetails(server) ==
    [FaaSType |-> server.faastype] @@
    (CASE server.faastype = "GitHubActions" ->
            [UserName |-> server.username,
             ActionRepoName |-> server.action_repo_name,
             Branch |-> server.branch]
       [] server.faastype = "Lambda" -> [Region |-> server.region]
       [] server.faastype = "OpenWhisk" ->
            [Namespace |-> server.namespace, Endpoint |-> server.endpoint]
       [] OTHER -> EmptyDict)

\* writer.py:74-79  the file names the sum looks up
FilesKnown(names, files) == \A k \in 1..Len(names) : names[k] \in DOMAIN files

\* writer.py:74-79  sum(workflow.files[file] for file in ...)
SizeInBytes(names, files) == SumSeq([k \in 1..Len(names) |-> files[names[k]]])

\* writer.py:66-83
ActionListEntry(function, server, wf) ==
    [FunctionName |-> function.function_name,
     FaaSServer |-> server.name,
     Type |-> function.type,
     Arguments |->
        [execution_time |-> function.execution_time,
         folder |-> wf.files_folder,
         input_files |-> function.input_files,
         input_size_in_bytes |-> SizeInBytes(function.input_files, wf.files),
         output_size_in_bytes |-> SizeInBytes(function.output_files, wf.files),
         actionid |-> function.name],
     InvokeNext |-> function.invoke_next]

\* the position of the last function of the list that carries this name
LastNamed(functions, name) ==
    CHOOSE k \in 1..Len(functions) :
        /\ functions[k].name = name
        /\ \A j \in (k + 1)..Len(functions) : functions[j].name # name

\* writer.py:18-83  faasr_data once the loops are through
FaasrData(wf, server) ==
    LET fl == wf.function_list
        names == {fl[k].name : k \in 1..Len(fl)}
    IN  [ComputeServers |-> (server.name :> ServerDetails(server)),
         DataStores |-> (wf.data_store :>
                            [Endpoint |-> wf.data_endpoint,
                             Bucket |-> wf.bucket,
                             Region |-> wf.region,
                             Writable |-> wf.writable]),
         ActionList |-> [n \in names |->
                            ActionListEntry(fl[LastNamed(fl, n)], server, wf)],
         ActionContainers |-> [n \in names |->
                            fl[LastNamed(fl, n)].action_container],
         FunctionGitRepo |-> wf.function_git_repos,
         FunctionInvoke |-> wf.start_function.name,
         InvocationID |-> "",
         FaaSrLog |-> "FaaSrLog",
         LoggingDataStore |-> wf.data_store,
         DefaultDataStore |-> wf.data_store,
         FunctionCRANPackage |-> [synthetic_faas_function |-> <<>>],
         FunctionGitHubPackage |-> [synthetic_faas_function |-> <<>>]]

\* writer.py:87, 92  the two file names inside the directory
MainFile(out) == <<out, ".json">>
FilesFile(out) == <<out, "_files.json">>

\* writer.py:9-93  the exception raised ("none" when it returns) and the
\* file system it leaves
write_faasr_obj_to_json(wf, out, disk) ==
    LET srv == WriterServer(wf)
        fl == wf.function_list
    IN  IF srv = None
        THEN [error |-> "AttributeError", fs |-> disk]
        ELSE IF \E k \in 1..Len(fl) :
                    \/ ~FilesKnown(fl[k].input_files, wf.files)
                    \/ ~FilesKnown(fl[k].output_files, wf.files)
        THEN [error |-> "KeyError", fs |-> disk]
        ELSE IF out \in DOMAIN disk
        THEN [error |-> "FileExistsError", fs |-> disk]
        ELSE [error |-> "none",
              fs |-> disk @@
                     (out :> (MainFile(out) :> FaasrData(wf, srv[1]) @@
                              FilesFile(out) :> [files |-> wf.files]))]

(***************************************************************************)
(* convert.py: create_test_workflow.                                       *)
(***************************************************************************)
Min(a, b) == IF a <= b THEN a ELSE b

\* convert.py:174  the positions of the tasks without parents, in list order
EntryPositions(tasks) ==
    SortedSeq({k \in 1..Len(tasks) : Len(tasks[k].parents) = 0})

\* convert.py:189  next((t for t in tasks if t.id == next_task_id), None)
FindById(tasks, id) ==
    LET hits == {k \in 1..Len(tasks) : tasks[k].id = id}
    IN  IF hits = {} THEN None ELSE Some(SetMin(hits))

RECURSIVE FollowChain(_, _, _, _)
\* convert.py:185-199  follow the first child until the chain cannot go on
FollowChain(tasks, selected, current, num_tasks) ==
    IF Len(selected) < num_tasks /\ tasks[current].children # <<>>
    THEN LET next_task == FindById(tasks, tasks[current].children[1])
         IN  IF next_task # None /\ next_task[1] \notin Range(selected)
             THEN FollowChain(tasks, Append(selected, next_task[1]),
                              next_task[1], num_tasks)
             ELSE selected
    ELSE selected

\* convert.py:202-207  fill up with the tasks not selected yet, in list order
PadSelection(tasks, selected, num_tasks) ==
    IF Len(selected) < num_tasks
    THEN LET rest == SortedSeq((1..Len(tasks)) \ Range(selected))
         IN  selected \o SubSeq(rest, 1, Min(Len(rest),
                                             num_tasks - Len(selected)))
    ELSE selected

\* convert.py:174-210  the positions of the selected tasks
SelectTasks(tasks, num_tasks) ==
    LET entry_tasks == EntryPositions(tasks)
        chosen == IF entry_tasks = <<>>
                  THEN [k \in 1..Min(num_tasks, Len(tasks)) |-> k]
                  ELSE PadSelection(tasks,
                          FollowChain(tasks, <<entry_tasks[1]>>,
                                      entry_tasks[1], num_tasks),
                          num_tasks)
    IN  SubSeq(chosen, 1, Min(Len(chosen), num_tasks))

\* convert.py:217, 221  [x for x in list if x in selected_ids]
KeepSelected(list, ids) ==
    LET kept == SortedSeq({k \in 1..Len(list) : list[k] \in ids})
    IN  [x \in 1..Len(kept) |-> list[kept[x]]]

\* convert.py:157-235
create_test_workflow(wf_workflow, num_tasks) ==
    IF wf_workflow.tasks = <<>> THEN wf_workflow
    ELSE LET tasks == wf_workflow.tasks
             sel == SelectTasks(tasks, num_tasks)
             selected_ids == {tasks[sel[k]].id : k \in 1..Len(sel)}
             used == UNION {Range(tasks[sel[k]].input_files)
                               \cup Range(tasks[sel[k]].output_files) :
                            k \in 1..Len(sel)}
         IN  WfFormatWorkflow(
                [f \in used \cap DOMAIN wf_workflow.files |->
                    wf_workflow.files[f]],
                [k \in 1..Len(sel) |->
                    [tasks[sel[k]] EXCEPT
                        !.children = KeepSelected(@, selected_ids),
                        !.parents = KeepSelected(@, selected_ids)]])

\* convert.py:274-275  the one input file every task gets
UNIFORM_INPUT_FILE == "uniform_input_file"

\* convert.py:264-275  the input answer: None keeps the sizes of the workflow
\* file, Some(0) removes every input file, Some(n) gives every task the one
\* uniform input file; both replace workflow.files as a whole
OverrideInput(wf, uniform_input_size) ==
    IF uniform_input_size = None THEN wf
    ELSE IF uniform_input_size[1] = 0
    THEN [files |-> EmptyDict,
          tasks |-> [k \in 1..Len(wf.tasks) |->
                        [wf.tasks[k] EXCEPT !.input_files = <<>>]]]
    ELSE [files |-> [f \in {UNIFORM_INPUT_FILE} |-> uniform_input_size[1]],
          tasks |-> [k \in 1..Len(wf.tasks) |->
                        [wf.tasks[k] EXCEPT
                            !.input_files = <<UNIFORM_INPUT_FILE>>]]]

\* convert.py:281-289  the output answer: None keeps workflow.files, Some(n)
\* sets the size of every output file of every task
OverrideOutput(wf, uniform_output_size) ==
    IF uniform_output_size = None THEN wf
    ELSE LET all_output_files ==
                 UNION {Range(wf.tasks[k].output_files) :
                           k \in 1..Len(wf.tasks)}
         IN  [wf EXCEPT !.files =
                 [f \in (DOMAIN wf.files) \cup all_output_files |->
                     IF f \in all_output_files THEN uniform_output_size[1]
                     ELSE wf.files[f]]]

(***************************************************************************)
(* The inputs of a run.                                                    *)
(***************************************************************************)
\* task ids: two that normalise to the same name, one that is the name a
\* synthetic root can draw
IdPool == << <<"A", "_", "b">>, <<"c">>, <<"a", "-", "b">>,
             <<"s", "t", "a", "r", "t", "7">>, <<"D", "_", "T">> >>

\* samples of random.uniform(0, 100) and of random.getrandbits(32)
UniformDraws == {0, 99}
RandBitsDraws == {7, 12}

FileNames == {"f1", "f2"}
FileSizes == [f1 |-> 10, f2 |-> 20]

\* lists of pairwise different servers
ServerLists ==
    {cs \in UNION {[1..m -> ServerPool] : m \in 1..MaxServers} :
        \A a, b \in 1..Len(cs) : a # b => cs[a] # cs[b]}

ServerArgs == {ListArg(cs) : cs \in ServerLists}
              \cup {SingleArg(srv) : srv \in ServerPool}

\* convert.py:348-359  the table the prompts build from their defaults
ContainerTable ==
    [n \in {srv.name : srv \in ServerPool} |->
        [R |-> "ghcr.io/faasr/github-actions-tidyverse:latest",
         Python |-> "ghcr.io/faasr/github-actions-python-slim:latest"]]

\* the tasks of a graph over the ids `ids` with the edges `E` (pairs of
\* positions), every task running `rt[k]` seconds
GraphTasks(ids, E, rt) ==
    [k \in 1..Len(ids) |->
        Task(rt[k], ids[k], ids[k],
             LET c == SortedSeq({j \in 1..Len(ids) : <<k, j>> \in E})
             IN  [x \in 1..Len(c) |-> ids[c[x]]],
             LET q == SortedSeq({j \in 1..Len(ids) : <<j, k>> \in E})
             IN  [x \in 1..Len(q) |-> ids[q[x]]],
             <<>>, <<>>)]

ForwardPairs(n) == {e \in (1..n) \X (1..n) : e[1] < e[2]}
ChainPairs(n) == {e \in (1..n) \X (1..n) : e[2] = e[1] + 1}

\* the locals and the history before the first call
FreshLocals ==
    /\ compute_servers = <<>>
    /\ function_list = <<>>
    /\ entry_functions = <<>>
    /\ server_index = 0
    /\ ti = 0
    /\ rejections = 0
    /\ scans = <<>>
    /\ result = None
    /\ error = "none"
    /\ fs = fs0
    /\ draws = <<>>
    /\ tape = <<>>
    /\ run = 1
    /\ first = None
    /\ output_name = "out"
    /\ attempt = None
    /\ original = None
    /\ sizes = None

\* the caller is about to call translate_wf_to_faasr
Fresh == pc = "ready" /\ FreshLocals

\* chains of tasks with runtimes on both sides of the limit, every server list
InitAssign ==
    /\ \E n \in 0..MaxTasks :
         \E rt \in [1..n -> {LAMBDA_MAX_RUNTIME, LAMBDA_MAX_RUNTIME + 1}] :
            workflow = WfFormatWorkflow(EmptyDict,
                          GraphTasks(SubSeq(IdPool, 1, n), ChainPairs(n), rt))
    /\ servers_arg \in ServerArgs
    /\ python_percentage = 0
    /\ server_containers = None
    /\ fs0 = EmptyDict
    /\ Fresh

\* every graph shape: forward edges, with or without an edge from the last
\* task back to the first (a cycle)
InitGraph ==
    /\ \E n \in 0..MaxTasks :
         \E S \in {T \in SUBSET (1..Len(IdPool)) : Cardinality(T) = n} :
           \E F \in SUBSET ForwardPairs(n) :
             \E back \in BOOLEAN :
               LET pos == SortedSeq(S)
                   ids == [k \in 1..n |-> IdPool[pos[k]]]
                   E == IF back /\ n > 0 THEN F \cup {<<n, 1>>} ELSE F
               IN  workflow = WfFormatWorkflow(EmptyDict,
                                 GraphTasks(ids, E, [k \in 1..n |-> 0]))
    /\ servers_arg = ListArg(<<GH, AWS>>)
    /\ \E o \in {<<50, None>>, <<50, Some(ContainerTable)>>} :
         /\ python_percentage = o[1]
         /\ server_containers = o[2]
    /\ fs0 = EmptyDict
    /\ Fresh

\* one task with every choice of file lists, size tables with and without
\* the files, an output directory that exists or not
InitFiles ==
    /\ \E inp, outp \in SeqsUpTo(FileNames, MaxFiles) :
         \E known \in SUBSET FileNames :
            workflow = WfFormatWorkflow([f \in known |-> FileSizes[f]],
                          <<Task(1, IdPool[1], IdPool[1], <<>>, <<>>, inp, outp)>>)
    /\ servers_arg \in {SingleArg(GH), ListArg(<<GH, OW>>)}
    /\ python_percentage = 0
    /\ server_containers = None
    /\ fs0 \in {EmptyDict, ("out" :> (MainFile("out") :> [old |-> TRUE]))}
    /\ Fresh

\* every graph shape again, about to be reduced by create_test_workflow and
\* then translated for one fixed server
InitSubset ==
    /\ \E n \in 0..MaxTasks :
         \E F \in SUBSET ForwardPairs(n) :
           \E back \in BOOLEAN :
             LET E == IF back /\ n > 0 THEN F \cup {<<n, 1>>} ELSE F
             IN  workflow = WfFormatWorkflow(EmptyDict,
                               GraphTasks(SubSeq(IdPool, 1, n), E,
                                          [k \in 1..n |-> 0]))
    /\ servers_arg = SingleArg(GH)
    /\ python_percentage = 0
    /\ server_containers = None
    /\ fs0 = EmptyDict
    /\ pc = "loaded"
    /\ FreshLocals

\* tables of containers a caller can pass: empty, without one of the
\* servers, and with a server that has a container for one language only
PartialTables ==
    {EmptyDict,
     [n \in {"AWS"} |-> [R |-> "aws-r:1", Python |-> "aws-py:1"]],
     [n \in {"GH", "AWS"} |->
        IF n = "GH" THEN [R |-> "gh-r:1"]
        ELSE [R |-> "aws-r:1", Python |-> "aws-py:1"]]}

\* translator.py:32-35  server_containers of every shape, both languages
\* drawn, for parentless tasks that have runtimes and files
InitContainers ==
    /\ \E n \in 1..2 :
         workflow = WfFormatWorkflow(EmptyDict,
                       [k \in 1..n |->
                           Task(300 * k, IdPool[k], IdPool[k], <<>>, <<>>,
                                <<"f1">>, <<"f2", "f1">>)])
    /\ servers_arg = ListArg(<<GH, AWS>>)
    /\ python_percentage = 50
    /\ \E table \in PartialTables : server_containers = Some(table)
    /\ fs0 = EmptyDict
    /\ Fresh

\* the answers to a file size prompt: the default, or a uniform size
SizeAnswers == {None, Some(0), Some(5)}

\* convert.py:248  a loaded chain of two tasks whose files all have a size
InitSizes ==
    /\ \E inp \in {<<>>, <<"f1">>} :
         \E outp \in {<<>>, <<"f2">>} :
            workflow = WfFormatWorkflow(
                          [f \in Range(inp) \cup Range(outp) |-> FileSizes[f]],
                          <<Task(1, IdPool[1], IdPool[1], <<IdPool[2]>>, <<>>,
                                 inp, outp),
                            Task(1, IdPool[2], IdPool[2], <<>>, <<IdPool[1]>>,
                                 outp, <<>>)>>)
    /\ servers_arg = ListArg(<<GH, OW>>)
    /\ python_percentage = 0
    /\ server_containers = None
    /\ fs0 = EmptyDict
    /\ pc = "sizes"
    /\ FreshLocals

\* convert.py:256  the number of tasks of a test workflow
TEST_NUM_TASKS == 5

\* convert.py:251-258, 313  test mode: the default servers and a test workflow
\* cut from a chain of tasks of either side of the Lambda limit
InitTest ==
    /\ \E rt \in [1..TEST_NUM_TASKS ->
                    {LAMBDA_MAX_RUNTIME, LAMBDA_MAX_RUNTIME + 1}] :
         workflow = create_test_workflow(
                       WfFormatWorkflow(EmptyDict,
                          GraphTasks(SubSeq(IdPool, 1, TEST_NUM_TASKS),
                                     ChainPairs(TEST_NUM_TASKS), rt)),
                       TEST_NUM_TASKS)
    /\ servers_arg = ListArg(create_default_compute_servers)
    /\ python_percentage = 0
    /\ server_containers = None
    /\ fs0 = EmptyDict
    /\ Fresh

\* durations handed to the constructors
Durations == {-1, 0}

\* an empty workflow that the caller fills task by task
InitBuild ==
    /\ workflow = WfFormatWorkflow(EmptyDict, <<>>)
    /\ servers_arg = ListArg(<<GH, OW>>)
    /\ python_percentage = 0
    /\ server_containers = None
    /\ fs0 = EmptyDict
    /\ pc = "build"
    /\ FreshLocals

Init ==
    \/ InitAssign
    \/ InitGraph
    \/ InitFiles
    \/ InitSubset
    \/ InitBuild
    \/ InitTest
    \/ InitContainers
    \/ InitSizes

(***************************************************************************)
(* The steps of a run.                                                     *)
(***************************************************************************)
\* the values a draw can take: free in the first run, replayed in the second
\* for as long as the first run drew
DrawAt(S, k) == IF run = 1 \/ k > Len(tape) THEN S ELSE {tape[k]}

\* translator.py:54-63  the call and the initialisation of its locals
CallTranslate ==
    /\ pc = "ready"
    /\ pc' = "translate"
    /\ compute_servers' = NormalizeServers(servers_arg)
    /\ function_list' = <<>>
    /\ entry_functions' = <<>>
    /\ server_index' = StartCursor(server_index)
    /\ ti' = 0
    /\ rejections' = 0
    /\ scans' = <<>>
    /\ UNCHANGED <<inputs, prepared, result, error, fs, draws, tape, run, first>>

\* translator.py:69-124  one iteration of the loop over workflow.tasks
TranslateTask ==
    /\ pc = "translate"
    /\ ti < Len(workflow.tasks)
    /\ \E u \in DrawAt(UniformDraws, Len(draws) + 1) :
         LET t == workflow.tasks[ti + 1]
             action_type == ActionType(u, python_percentage)
             a == AssignServer(compute_servers, server_index, t)
             container == SelectContainer(server_containers, a.server.name,
                                          action_type)
             function == IF container = None THEN None
                         ELSE TaskAction(t, a.server, container[1], action_type)
         IN  /\ draws' = Append(draws, u)
             /\ server_index' = a.server_index
             /\ rejections' = rejections + a.skipped
             /\ scans' = Append(scans, a.attempts)
             /\ IF function = None
                THEN /\ pc' = "failed"
                     /\ error' = IF container = None THEN "KeyError"
                                 ELSE "ValueError"
                     /\ UNCHANGED <<function_list, entry_functions, ti>>
                ELSE /\ function_list' = Append(function_list, function[1])
                     /\ entry_functions' =
                            IF Len(t.parents) = 0
                            THEN Append(entry_functions, function[1])
                            ELSE entry_functions
                     /\ ti' = ti + 1
                     /\ UNCHANGED <<pc, error>>
    /\ UNCHANGED <<inputs, prepared, compute_servers, result, fs, tape, run, first>>

\* translator.py:126-168  after the loop: the entry function and the return
HandleEntry ==
    /\ pc = "translate"
    /\ ti = Len(workflow.tasks)
    /\ LET case == EntryCase(Len(entry_functions))
       IN  IF case = "none"
           THEN /\ pc' = "aborted"
                /\ UNCHANGED <<function_list, result, error, draws>>
           ELSE IF case = "many"
           THEN \E rand_num \in DrawAt(RandBitsDraws, Len(draws) + 1) :
                  \E u \in DrawAt(UniformDraws, Len(draws) + 2) :
                    LET entry_type == ActionType(u, python_percentage)
                        container == SelectContainer(server_containers,
                                        compute_servers[1].name, entry_type)
                        entry == IF container = None THEN None
                                 ELSE EntryAction(compute_servers[1], rand_num,
                                         container[1],
                                         EntryNames(entry_functions),
                                         entry_type)
                    IN  /\ draws' = draws \o <<rand_num, u>>
                        /\ IF entry = None
                           THEN /\ pc' = "failed"
                                /\ error' = "KeyError"
                                /\ UNCHANGED <<function_list, result>>
                           ELSE /\ pc' = "translated"
                                /\ function_list' =
                                       Append(function_list, entry[1])
                                /\ result' = Some(SyntheticFaaSrWorkflow(
                                       compute_servers, workflow.files,
                                       Append(function_list, entry[1]),
                                       entry[1]))
                                /\ UNCHANGED error
           ELSE /\ pc' = "translated"
                /\ result' = Some(SyntheticFaaSrWorkflow(
                       compute_servers, workflow.files, function_list,
                       entry_functions[1]))
                /\ UNCHANGED <<function_list, error, draws>>
    /\ UNCHANGED <<inputs, prepared, compute_servers, entry_functions, server_index, ti,
                   rejections, scans, fs, tape, run, first>>

\* convert.py:391  the caller serialises the workflow it got back
WriteFaasr ==
    /\ pc = "translated"
    /\ LET w == write_faasr_obj_to_json(result[1], output_name, fs)
       IN  /\ error' = w.error
           /\ fs' = w.fs
           /\ pc' = IF w.error = "none" THEN "written" ELSE "write_failed"
    /\ UNCHANGED <<inputs, prepared, compute_servers, function_list, entry_functions,
                   server_index, ti, rejections, scans, result, draws, tape,
                   run, first>>

Finished == {"aborted", "failed", "written", "write_failed"}

\* the same inputs and the same draws once more, in the same interpreter
Rerun ==
    /\ run = 1
    /\ pc \in Finished
    /\ first' = Some([pc |-> pc, result |-> result, error |-> error, fs |-> fs])
    /\ run' = 2
    /\ tape' = draws
    /\ draws' = <<>>
    /\ pc' = "ready"
    /\ result' = None
    /\ error' = "none"
    /\ fs' = fs0
    /\ UNCHANGED <<inputs, prepared, compute_servers, function_list, entry_functions,
                   server_index, ti, rejections, scans>>

\* convert.py:251-258  test mode: the workflow is replaced by its subset
ApplyTestMode ==
    /\ pc = "loaded"
    /\ \E num_tasks \in 1..MaxTasks :
         /\ original' = Some([workflow |-> workflow, num_tasks |-> num_tasks])
         /\ workflow' = create_test_workflow(workflow, num_tasks)
    /\ pc' = "ready"
    /\ UNCHANGED <<servers_arg, python_percentage, server_containers,
                   output_name, fs0, attempt, sizes, compute_servers,
                   function_list,
                   entry_functions, server_index, ti, rejections, scans,
                   result, error, fs, draws, tape, run, first>>

\* convert.py:260-289  the two file size prompts and what they do to the
\* workflow, input first
ApplySizeOverrides ==
    /\ pc = "sizes"
    /\ \E uniform_input_size, uniform_output_size \in SizeAnswers :
         /\ sizes' = Some([loaded |-> workflow,
                           input |-> uniform_input_size,
                           output |-> uniform_output_size])
         /\ workflow' = OverrideOutput(
                            OverrideInput(workflow, uniform_input_size),
                            uniform_output_size)
    /\ pc' = "ready"
    /\ UNCHANGED <<servers_arg, python_percentage, server_containers,
                   output_name, fs0, attempt, original, compute_servers,
                   function_list, entry_functions, server_index, ti,
                   rejections, scans, result, error, fs, draws, tape, run,
                   first>>

\* the locals of the call, its outcome and the history of the runs
call_state == <<compute_servers, function_list, entry_functions, server_index,
                ti, rejections, scans, result, error, fs, draws, tape, run,
                first>>

\* workflow.py:203-221  the caller constructs a Task and, when the
\* constructor returns one, appends it to the workflow's tasks
ConstructTask ==
    /\ pc = "build"
    /\ Len(workflow.tasks) < MaxTasks
    /\ \E runtime \in Durations :
         LET id == IdPool[Len(workflow.tasks) + 1]
             t == TaskInit(runtime, id, id, <<>>, <<>>, <<>>, <<>>)
         IN  /\ attempt' = Some([class |-> "Task", value |-> runtime,
                                 object |-> t])
             /\ workflow' = IF t = None THEN workflow
                             ELSE [workflow EXCEPT !.tasks = Append(@, t[1])]
    /\ UNCHANGED <<servers_arg, python_percentage, server_containers,
                   output_name, fs0, pc, original, sizes, call_state>>

\* workflow.py:164-186  the caller constructs a SyntheticFaaSrAction
ConstructAction ==
    /\ pc = "build"
    /\ \E execution_time \in Durations :
         attempt' = Some([class |-> "SyntheticFaaSrAction",
                          value |-> execution_time,
                          object |-> SyntheticFaaSrAction(GH, execution_time,
                                        IdPool[2], DefaultContainer, <<>>,
                                        <<>>, <<>>, "R")])
    /\ UNCHANGED <<inputs, pc, original, sizes, call_state>>

\* the workflow is complete
FinishBuild ==
    /\ pc = "build"
    /\ pc' = "ready"
    /\ UNCHANGED <<inputs, prepared, call_state>>

Next ==
    \/ ApplySizeOverrides
    \/ ConstructTask
    \/ ConstructAction
    \/ FinishBuild
    \/ CallTranslate
    \/ TranslateTask
    \/ HandleEntry
    \/ WriteFaasr
    \/ Rerun
    \/ ApplyTestMode

Spec == Init /\ [][Next]_vars

(***************************************************************************)
(* Properties.                                                             *)
(***************************************************************************)
\* the positions of the tasks that have no parents, in task-list order
Roots == SortedSeq({k \in 1..Len(workflow.tasks) :
                        Len(workflow.tasks[k].parents) = 0})

\* the call returned a workflow / ran to its end without an exception
Returned == pc \in {"translated", "written", "write_failed"}
Ended == Returned \/ pc = "aborted"
WriteTried == pc \in {"written", "write_failed"}

\* `name` is `id` in lower case with every underscore replaced by a hyphen
Normalized(id, name) ==
    /\ Len(name) = Len(id)
    /\ \A k \in 1..Len(id) :
          name[k] = IF id[k] = "_" THEN "-" ELSE Lower(id[k])

MultiProvider == servers_arg.is_list /\ Len(servers_arg.value) >= 2

\* C1: in multi-provider translation over a list that holds a server that is
\* not a Lambda server, no task running longer than 600 seconds is bound to
\* a Lambda server, whatever the servers are called.
C1_LongTaskNeverOnLambda ==
    (/\ MultiProvider
     /\ compute_servers = servers_arg.value
     /\ \E k \in 1..Len(compute_servers) :
            compute_servers[k].faastype # "Lambda")
    => \A k \in 1..Len(function_list) :
          (k <= Len(workflow.tasks)
           /\ workflow.tasks[k].runtime > 600)
          => function_list[k].compute_server.faastype # "Lambda"

\* C2: with more than one parentless task the returned workflow holds the
\* task actions followed by exactly one synthetic root; the root invokes the
\* actions of the parentless tasks in task-list order and is start_function.
C2_SyntheticRoot ==
    (Ended /\ Len(Roots) > 1)
    => /\ result # None
       /\ LET fl == result[1].function_list
              n == Len(workflow.tasks)
          IN  /\ Len(fl) = n + 1
              /\ \A k \in 1..n : Normalized(workflow.tasks[k].id, fl[k].name)
              /\ \E r \in RandBitsDraws : fl[n + 1].name = StartName(r)
              /\ fl[n + 1].invoke_next =
                    [k \in 1..Len(Roots) |-> fl[Roots[k]].name]
              /\ result[1].start_function = fl[n + 1]

C2_Witness ==
    /\ Returned
    /\ Len(Roots) = 3
    /\ result[1].start_function.invoke_next =
          <<<<"a", "-", "b">>, <<"c">>, <<"d", "-", "t">>>>

\* C3: with exactly one parentless task the returned entry action carries
\* that task's id in lower case with hyphens for underscores, and the action
\* list holds one action per task and nothing else.
C3_SingleEntry ==
    (Ended /\ Len(Roots) = 1)
    => /\ result # None
       /\ LET fl == result[1].function_list
              n == Len(workflow.tasks)
          IN  /\ Len(fl) = n
              /\ \A k \in 1..n : Normalized(workflow.tasks[k].id, fl[k].name)
              /\ result[1].start_function = fl[Roots[1]]
              /\ Normalized(workflow.tasks[Roots[1]].id,
                            result[1].start_function.name)

C3_Witness ==
    /\ Returned
    /\ Len(Roots) = 1
    /\ Len(workflow.tasks) = 3
    /\ workflow.tasks[Roots[1]].id = <<"A", "_", "b">>
    /\ result[1].start_function.name = <<"a", "-", "b">>

\* C4: without a parentless task (no task at all, or a cycle) the call ends
\* by quitting: nothing is returned and the file system is left as it was.
C4_NoEntryAborts ==
    (pc \notin {"loaded", "build", "sizes", "ready", "translate"}
     /\ Len(Roots) = 0)
    => /\ pc = "aborted"
       /\ result = None
       /\ fs = fs0
       /\ ~ENABLED WriteFaasr

C4_Witness ==
    /\ pc = "aborted"
    /\ Len(workflow.tasks) = 3
    /\ Len(function_list) = 3

\* C5: as long as the runtime check has skipped no candidate, task i (from
\* 0) is bound to server i mod m, and every server holds floor(n/m) or
\* ceil(n/m) of the n tasks converted so far.
C5_RoundRobinFair ==
    (rejections = 0 /\ pc # "ready")
    => LET m == Len(compute_servers)
           n == ti
           Count(p) == Cardinality({k \in 1..n :
                          function_list[k].compute_server = compute_servers[p]})
       IN  /\ \A k \in 1..n :
                 function_list[k].compute_server =
                    compute_servers[((k - 1) % m) + 1]
           /\ \A p \in 1..m :
                 Count(p) \in {n \div m, (n + m - 1) \div m}

C5_Witness ==
    /\ pc = "translated"
    /\ rejections = 0
    /\ Len(compute_servers) = 2
    /\ ti = 3
    /\ function_list[3].compute_server = compute_servers[1]
    /\ function_list[2].compute_server = compute_servers[2]

\* every file name a task refers to has a size in workflow.files
AllFilesResolve ==
    \A k \in 1..Len(workflow.tasks) :
        /\ Range(workflow.tasks[k].input_files) \subseteq DOMAIN workflow.files
        /\ Range(workflow.tasks[k].output_files) \subseteq DOMAIN workflow.files

DistinctIds ==
    \A a, b \in 1..Len(workflow.tasks) :
        a # b => workflow.tasks[a].id # workflow.tasks[b].id

\* the primary manifest in the output directory
Manifest == fs[output_name][MainFile(output_name)]

\* C6: serialising a translated graph whose files all resolve into a
\* directory that does not exist yet completes, and ActionList and
\* ActionContainers hold one entry per action of the graph.
C6_SerializationCompletes ==
    (/\ WriteTried
     /\ output_name \notin DOMAIN fs0
     /\ AllFilesResolve
     /\ DistinctIds)
    => /\ error = "none"
       /\ Cardinality(DOMAIN Manifest.ActionList)
             = Len(result[1].function_list)
       /\ Cardinality(DOMAIN Manifest.ActionContainers)
             = Len(result[1].function_list)

\* C7: the manifest's ComputeServers has an entry for every server of the
\* graph and every ActionList entry names, as FaaSServer, the server its
\* action was bound to.
C7_ServersAndBindings ==
    (/\ WriteTried
     /\ output_name \notin DOMAIN fs0
     /\ AllFilesResolve)
    => /\ error = "none"
       /\ DOMAIN Manifest.ComputeServers =
             {srv.name : srv \in Range(result[1].compute_servers)}
       /\ \A k \in 1..Len(result[1].function_list) :
             LET f == result[1].function_list[k]
             IN  Manifest.ActionList[f.name].FaaSServer = f.compute_server.name

\* C8: the manifest gives every action the sum of the sizes of its input
\* files and of its output files, one term per occurrence; a file without
\* a size makes the serialisation fail with a lookup error.
C8_SizeAggregation ==
    (WriteTried /\ output_name \notin DOMAIN fs0)
    => IF AllFilesResolve
       THEN /\ error = "none"
            /\ \A k \in 1..Len(result[1].function_list) :
                  LET f == result[1].function_list[k]
                      a == Manifest.ActionList[f.name].Arguments
                  IN  /\ a.input_size_in_bytes =
                            SumSeq([x \in 1..Len(f.input_files) |->
                                       workflow.files[f.input_files[x]]])
                      /\ a.output_size_in_bytes =
                            SumSeq([x \in 1..Len(f.output_files) |->
                                       workflow.files[f.output_files[x]]])
       ELSE error = "KeyError" /\ fs = fs0

\* C9: an existing output directory makes the call fail with the
\* directory-exists error and is left untouched; a directory that did not
\* exist is created and receives both manifests.
C9_NoOverwrite ==
    (WriteTried /\ AllFilesResolve)
    => IF output_name \in DOMAIN fs0
       THEN error = "FileExistsError" /\ fs = fs0
       ELSE /\ error = "none"
            /\ DOMAIN fs[output_name] =
                  {MainFile(output_name), FilesFile(output_name)}

SingleProvider == ~servers_arg.is_list

\* C11 as stated: with one fixed server the names and the invoke_next
\* entries are the task ids verbatim, with a list they are normalised.
C11_VerbatimInSingleMode ==
    \A k \in 1..Len(function_list) :
        k <= Len(workflow.tasks)
        => LET t == workflow.tasks[k]
               f == function_list[k]
           IN  IF SingleProvider
               THEN f.name = t.id /\ f.invoke_next = t.children
               ELSE /\ Normalized(t.id, f.name)
                    /\ Len(f.invoke_next) = Len(t.children)
                    /\ \A i \in 1..Len(t.children) :
                          Normalized(t.children[i], f.invoke_next[i])

\* C11 amended: with one fixed server as with a list, every action name and
\* every invoke_next entry is the task id in lower case with hyphens for
\* underscores.
C11_NormalizedInBothModes ==
    \A k \in 1..Len(function_list) :
        k <= Len(workflow.tasks)
        => LET t == workflow.tasks[k]
               f == function_list[k]
           IN  /\ Normalized(t.id, f.name)
               /\ Len(f.invoke_next) = Len(t.children)
               /\ \A i \in 1..Len(t.children) :
                     Normalized(t.children[i], f.invoke_next[i])

C11_Witness ==
    /\ SingleProvider
    /\ Returned
    /\ \E k \in 1..Len(workflow.tasks) :
          /\ workflow.tasks[k].id = <<"A", "_", "b">>
          /\ function_list[k].name = <<"a", "-", "b">>
    /\ \E k \in 1..Len(workflow.tasks) :
          /\ workflow.tasks[k].children = <<<<"A", "_", "b">>>>
          /\ function_list[k].invoke_next = <<<<"a", "-", "b">>>>

\* C12: a Task with a negative runtime and a SyntheticFaaSrAction with a
\* negative execution time are refused by their constructors and no object
\* comes back, a duration of zero is accepted, and so no task of a workflow
\* and no action of a translation carries a negative duration.
C12_NoNegativeDuration ==
    /\ attempt # None
       => ((attempt[1].object = None) <=> (attempt[1].value < 0))
    /\ \A k \in 1..Len(workflow.tasks) : workflow.tasks[k].runtime >= 0
    /\ \A k \in 1..Len(function_list) : function_list[k].execution_time >= 0
    /\ result # None
       => \A k \in 1..Len(result[1].function_list) :
             result[1].function_list[k].execution_time >= 0

C12_Witness ==
    /\ Returned
    /\ attempt # None
    /\ attempt[1].class = "Task"
    /\ attempt[1].value < 0
    /\ attempt[1].object = None
    /\ Len(workflow.tasks) = 2
    /\ workflow.tasks[2].runtime = 0
    /\ result[1].function_list[2].execution_time = 0

\* test mode: the five default servers and a test workflow of five tasks
TestMode ==
    /\ servers_arg = ListArg(create_default_compute_servers)
    /\ Len(workflow.tasks) = TEST_NUM_TASKS

\* C13: in test mode the five task actions are bound to five pairwise
\* different servers, whatever the runtimes of the tasks are.
C13_TestModeDistinctServers ==
    (TestMode /\ Returned)
    => \A i, j \in 1..TEST_NUM_TASKS :
          i # j => result[1].function_list[i].compute_server
                      # result[1].function_list[j].compute_server

\* the number of candidates the scan looks at for task t from cursor idx: up
\* to and including the first one that takes the task, all of them if none does
Scanned(cs, idx, t) ==
    LET m == Len(cs)
        takes == {k \in 1..m : ~Rejects(cs[((idx + k - 1) % m) + 1], t)}
    IN  IF takes = {} THEN m ELSE SetMin(takes)

\* C14: every call starts with the cursor at 0 whatever an earlier call left,
\* and the step of a task moves the cursor forward by exactly the number of
\* candidates scanned for the task, at least 1 and at most the number of
\* servers; within a call the cursor never decreases.
C14_CursorStep ==
    /\ (pc = "ready" /\ pc' = "translate") => server_index' = 0
    /\ (pc = "translate" /\ Len(scans') = Len(scans) + 1)
       => LET k == Scanned(compute_servers, server_index,
                           workflow.tasks[ti + 1])
          IN  /\ server_index' = server_index + k
              /\ scans'[Len(scans')] = k
              /\ k >= 1
              /\ k <= Len(compute_servers)
    /\ pc = "translate" => server_index' >= server_index

C14_CursorCallScoped == [][C14_CursorStep]_vars

C14_Witness ==
    /\ run = 2
    /\ pc = "translated"
    /\ Len(compute_servers) = 2
    /\ scans = <<1, 2>>
    /\ server_index = 3
    /\ first # None

\* the cursor the call holds when it comes to its k-th task
CursorBefore(k) == SumSeq(SubSeq(scans, 1, k - 1))

\* a Lambda server turns down a task that runs longer than the limit
LambdaRejects(candidate, t) ==
    candidate.faastype = "Lambda" /\ t.runtime > LAMBDA_MAX_RUNTIME

\* the server a task is to get from cursor idx, given the positions of the
\* servers that turn it down and of those that can turn a task down at all:
\* the first one at or after the cursor that takes it; when all turn it down,
\* the first of the list that turns nothing down, and the first of the list
\* when there is none
ExpectedServer(cs, idx, rejecting, guarded) ==
    LET m == Len(cs)
        takes == {j \in 0..(m - 1) : (((idx + j) % m) + 1) \notin rejecting}
        free == (1..m) \ guarded
    IN  IF takes # {} THEN cs[((idx + SetMin(takes)) % m) + 1]
        ELSE IF free # {} THEN cs[SetMin(free)]
        ELSE cs[1]

\* C15: when every server of the ring turns a task down (all are Lambda
\* servers and the task runs longer than 600 seconds) the task still gets a
\* server: it is bound to the first server of the list that turns nothing
\* down, else to the first server of the list; and when some server takes the
\* task it is bound to the first one that does, at or after the cursor.
C15_FallbackOnlyWhenAllReject ==
    \A k \in 1..Len(function_list) :
       k <= ti
       => LET cs == compute_servers
              t == workflow.tasks[k]
          IN  function_list[k].compute_server =
                 ExpectedServer(cs, CursorBefore(k),
                    {p \in 1..Len(cs) : LambdaRejects(cs[p], t)},
                    {p \in 1..Len(cs) : cs[p].faastype = "Lambda"})

\* the same with the test the code makes: a server turns a long task down
\* when it is called "AWS"
FallbackByName ==
    \A k \in 1..Len(function_list) :
       k <= ti
       => LET cs == compute_servers
              t == workflow.tasks[k]
          IN  function_list[k].compute_server =
                 ExpectedServer(cs, CursorBefore(k),
                    {p \in 1..Len(cs) : Rejects(cs[p], t)},
                    {p \in 1..Len(cs) : cs[p].name = "AWS"})

\* C16: with more than one parentless task, the name of the synthetic root
\* differs from the name of every task action of the returned workflow,
\* whatever number the generator draws.
C16_RootNameFresh ==
    (Returned /\ Len(Roots) > 1)
    => LET fl == result[1].function_list
           n == Len(workflow.tasks)
       IN  \A k \in 1..n : fl[k].name # fl[n + 1].name

\* the container of the table for a server name and a language when the
\* table has one, the default container otherwise
ResolvedContainer(containers, server_name, type) ==
    IF /\ containers # None
       /\ server_name \in DOMAIN containers[1]
       /\ type \in DOMAIN containers[1][server_name]
    THEN containers[1][server_name][type]
    ELSE DefaultContainer

\* C17: every action, the synthetic root included, has the container the
\* table gives for its server name and its language when the table has that
\* entry and the default container otherwise; translation never fails for a
\* table that is missing, lacks the server or lacks the language.
C17_ContainerOrDefault ==
    /\ error # "KeyError"
    /\ \A k \in 1..Len(function_list) :
          function_list[k].action_container =
             ResolvedContainer(server_containers,
                               function_list[k].compute_server.name,
                               function_list[k].type)

\* C18: the returned function list has one action per task, in the order of
\* the task list, each with the runtime, the input files and the output files
\* of its task; only with more than one parentless task it is followed by
\* the synthetic root as last element, which has execution time 0, no input
\* and no output files and runs on the first of the servers.
C18_ActionListShape ==
    Returned
    => LET fl == result[1].function_list
           n == Len(workflow.tasks)
           many == Len(Roots) > 1
       IN  /\ Len(fl) = IF many THEN n + 1 ELSE n
           /\ \A k \in 1..n :
                 /\ Normalized(workflow.tasks[k].id, fl[k].name)
                 /\ fl[k].execution_time = workflow.tasks[k].runtime
                 /\ fl[k].input_files = workflow.tasks[k].input_files
                 /\ fl[k].output_files = workflow.tasks[k].output_files
           /\ many
              => /\ fl[n + 1].execution_time = 0
                 /\ fl[n + 1].input_files = <<>>
                 /\ fl[n + 1].output_files = <<>>
                 /\ fl[n + 1].compute_server
                       = NormalizeServers(servers_arg)[1]
                 /\ result[1].start_function = fl[n + 1]

C18_Witness ==
    /\ pc = "translated"
    /\ Len(Roots) = 2
    /\ Len(result[1].function_list) = 3
    /\ result[1].function_list[2].execution_time = 600
    /\ result[1].function_list[1].input_files = <<"f1">>
    /\ result[1].function_list[1].output_files = <<"f2", "f1">>
    /\ result[1].function_list[3].execution_time = 0
    /\ result[1].function_list[3].compute_server = GH

\* every id in a children list is the id of a task of the workflow
ChildrenClosed ==
    \A k \in 1..Len(workflow.tasks) :
       \A i \in 1..Len(workflow.tasks[k].children) :
          \E j \in 1..Len(workflow.tasks) :
             workflow.tasks[j].id = workflow.tasks[k].children[i]

\* C19: for every task and every position i, the i-th entry of invoke_next of
\* the task's action is the name of the action made from the task's i-th
\* child; so when every child id is the id of a task, every invoke_next entry
\* of every action of the returned workflow is the name of one of its actions.
C19_EdgesPreserved ==
    /\ \A k \in 1..Len(function_list) :
          k <= ti
          => LET t == workflow.tasks[k]
                 next == function_list[k].invoke_next
             IN  /\ Len(next) = Len(t.children)
                 /\ \A i \in 1..Len(next) :
                       /\ Normalized(t.children[i], next[i])
                       /\ \A j \in 1..Len(function_list) :
                             (j <= ti /\ workflow.tasks[j].id = t.children[i])
                             => function_list[j].name = next[i]
    /\ (Returned /\ ChildrenClosed)
       => LET fl == result[1].function_list
          IN  \A k \in 1..Len(fl) :
                 \A i \in 1..Len(fl[k].invoke_next) :
                    \E j \in 1..Len(fl) : fl[j].name = fl[k].invoke_next[i]

C19_Witness ==
    /\ pc = "translated"
    /\ ChildrenClosed
    /\ \E k \in 1..Len(workflow.tasks) :
          /\ workflow.tasks[k].children = << <<"a", "-", "b">>, <<"D", "_", "T">> >>
          /\ result[1].function_list[k].invoke_next
                = << <<"a", "-", "b">>, <<"d", "-", "t">> >>
          /\ result[1].function_list[3].name = <<"d", "-", "t">>

\* every child of a task stands after the task in the list: no cycle
ForwardOnly(tasks) ==
    \A k \in 1..Len(tasks) :
       \A i \in 1..Len(tasks[k].children) :
          \E j \in (k + 1)..Len(tasks) : tasks[j].id = tasks[k].children[i]

\* C20: create_test_workflow(w, N) leaves a linear chain of at most N tasks:
\* every id left in a children or parents list is the id of a selected task,
\* every selected task has at most one child and at most one parent, and a
\* workflow that is not empty has exactly one parentless task. Stated for
\* source graphs without a cycle.
C20_TestWorkflowIsChain ==
    (original # None /\ ForwardOnly(original[1].workflow.tasks))
    => LET tasks == workflow.tasks
           ids == {tasks[k].id : k \in 1..Len(tasks)}
       IN  /\ Len(tasks) <= original[1].num_tasks
           /\ \A k \in 1..Len(tasks) :
                 /\ Range(tasks[k].children) \subseteq ids
                 /\ Range(tasks[k].parents) \subseteq ids
                 /\ Len(tasks[k].children) <= 1
                 /\ Len(tasks[k].parents) <= 1
           /\ Len(tasks) > 0 => Len(Roots) = 1

RECURSIVE Closure(_, _)
\* the positions reached from the set S along next, which gives the
\* successors of every position
Closure(S, next) ==
    LET T == S \cup UNION {next[x] : x \in S}
    IN  IF T = S THEN S ELSE Closure(T, next)

\* the edges of the source graph: for every position of the task list, the
\* positions of the tasks named in its children
SourceEdges ==
    [k \in 1..Len(workflow.tasks) |->
        {j \in 1..Len(workflow.tasks) :
            workflow.tasks[j].id \in Range(workflow.tasks[k].children)}]

\* the source graph has no cycle
SourceIsDag ==
    LET next == SourceEdges
    IN  \A k \in 1..Len(workflow.tasks) : k \notin Closure(next[k], next)

\* a task is in the children of another exactly when that one is in its parents
SourceConsistent ==
    /\ ChildrenClosed
    /\ \A k, j \in 1..Len(workflow.tasks) :
          (workflow.tasks[j].id \in Range(workflow.tasks[k].children))
          <=> (workflow.tasks[k].id \in Range(workflow.tasks[j].parents))

\* the invoke_next edges of a function list: for every position, the
\* positions of the actions named in its invoke_next
InvokeEdges(fl) ==
    [k \in 1..Len(fl) |->
        {j \in 1..Len(fl) : fl[j].name \in Range(fl[k].invoke_next)}]

\* C21: for a source graph without a cycle whose parents and children lists
\* agree, the entry action of the returned workflow is one of its actions,
\* every action is reached from it along invoke_next, and every action that
\* is not the entry action is invoked by some action.
C21_EntryReachesAll ==
    (Returned /\ SourceConsistent /\ SourceIsDag)
    => LET fl == result[1].function_list
           entry == {k \in 1..Len(fl) : fl[k] = result[1].start_function}
           next == InvokeEdges(fl)
       IN  /\ entry # {}
           /\ Closure(entry, next) = 1..Len(fl)
           /\ \A j \in (1..Len(fl)) \ entry :
                 \E k \in 1..Len(fl) : j \in next[k]

C21_Witness ==
    /\ pc = "translated"
    /\ SourceIsDag
    /\ SourceConsistent
    /\ Len(workflow.tasks) = 3
    /\ Len(Roots) = 2
    /\ Len(workflow.tasks[3].parents) = 2
    /\ Len(result[1].function_list) = 4
    /\ result[1].start_function = result[1].function_list[4]
    /\ Len(result[1].start_function.invoke_next) = 2

\* the workflow as loaded named no file without a size
LoadedConsistent ==
    \A k \in 1..Len(sizes[1].loaded.tasks) :
       /\ Range(sizes[1].loaded.tasks[k].input_files)
             \subseteq DOMAIN sizes[1].loaded.files
       /\ Range(sizes[1].loaded.tasks[k].output_files)
             \subseteq DOMAIN sizes[1].loaded.files

\* C22: after the two file size prompts, whatever the answers (the default or
\* a uniform size, 0 included, for inputs and for outputs), every file name
\* in the input_files or output_files of a task has an entry in
\* workflow.files when the loaded workflow had one for each.
C22_FilesResolveAfterOverrides ==
    (sizes # None /\ LoadedConsistent) => AllFilesResolve

====
